---- MODULE Spec2Model ----
(***************************************************************************)
(* Model of the payment engine: PaymentService (payment_service.rs) on top *)
(* of PickleDatastore (datastore.rs), with the records and deserializers   *)
(* of model.rs.                                                            *)
(* The MockDatastore of the tests is the second implementation of the     *)
(* datastore operations.                                                   *)
(*                                                                         *)
(* Decimal values are integers counting 10^-5, so that one unit of the     *)
(* 4th fractional digit is Unit = 10 and round_dp(4) is a real rounding.   *)
(* Option<T> is a sequence of length 0 (None) or 1 (Some).                 *)
(***************************************************************************)
EXTENDS Integers, Sequences, FiniteSets, TLC

\* ------------------------------------------------------------------------
\* Bounds of the model
\* rows of the input log
MaxRows == 4
\* the largest amount of a row, in units of the 4th fractional digit
MaxAmount == 1

\* ------------------------------------------------------------------------
\* Program constants
DECIMAL_POINT == 4
CACHE_SIZE == 50000
\* one unit of the DECIMAL_POINT-th fractional digit, counted in 10^-5
Unit == 10

\* Two clients (a row's own client and a foreign one) and two transaction ids
\* (an id and another one, each of which the log may use again)
ClientIds == {1, 2}
TxIds == {1, 2}

None == << >>
Some(x) == << x >>

\* ------------------------------------------------------------------------
\* model.rs

\* Decimal::round_dp(DECIMAL_POINT): nearest multiple of Unit, midpoint to even
round_dp(x) ==
    LET q == x \div Unit
        r == x % Unit
    IN  IF 2 * r < Unit THEN q * Unit
        ELSE IF 2 * r > Unit THEN (q + 1) * Unit
        ELSE IF q % 2 = 0 THEN q * Unit ELSE (q + 1) * Unit

\* amount_deserializer: the text is None (empty) or Some(the decimal written)
amount_deserializer(amount_text) ==
    IF amount_text = None THEN None
    ELSE IF amount_text[1] = 0 THEN None
    ELSE Some(round_dp(amount_text[1]))

default_disputed == FALSE

\* A row of the input, deserialized into a Transaction
Transaction(type, client, tx, amount_text) ==
    [type |-> type, client_id |-> client, transaction_id |-> tx,
     amount |-> amount_deserializer(amount_text), disputed |-> default_disputed]

\* Account::new
AccountNew(client) ==
    [client_id |-> client, available |-> 0, held |-> 0, total |-> 0, locked |-> FALSE]

\* Account::round_values
round_values(account) ==
    [account EXCEPT !.available = round_dp(account.available),
                    !.held = round_dp(account.held),
                    !.total = round_dp(account.total)]

\* serde_json::to_string(&transaction): the fields in declaration order,
\* the amount as the decimal's text
ToJson(t) == << t.type, t.client_id, t.transaction_id, t.amount, t.disputed >>

\* serde_json::from_str: the amount goes through amount_deserializer again, so
\* a stored amount of zero reads back as None. (A stored null amount would not
\* deserialize; the handlers save only transactions that carry an amount.)
FromJson(json) ==
    [type |-> json[1], client_id |-> json[2], transaction_id |-> json[3],
     amount |-> amount_deserializer(json[4]), disputed |-> json[5]]

\* ------------------------------------------------------------------------
\* LruCache<u32, Transaction>: entries [key, value], least recently used first

LruIndex(c, k) ==
    IF \E i \in 1..Len(c) : c[i].key = k
    THEN CHOOSE i \in 1..Len(c) : c[i].key = k
    ELSE 0

LruRemoveAt(c, i) == SubSeq(c, 1, i - 1) \o SubSeq(c, i + 1, Len(c))

\* LruCache::get: a hit becomes the most recently used entry
LruGet(c, k) ==
    LET i == LruIndex(c, k)
    IN  IF i = 0 THEN [val |-> None, cache |-> c]
        ELSE [val |-> Some(c[i].value), cache |-> Append(LruRemoveAt(c, i), c[i])]

\* LruCache::put: replaces or inserts as most recently used, evicting the
\* least recently used entry of a full cache
LruPut(c, k, v) ==
    LET i == LruIndex(c, k)
        e == [key |-> k, value |-> v]
    IN  IF i # 0 THEN Append(LruRemoveAt(c, i), e)
        ELSE IF Len(c) >= CACHE_SIZE THEN Append(Tail(c), e)
        ELSE Append(c, e)

\* LruCache::pop
LruPop(c, k) ==
    LET i == LruIndex(c, k)
    IN  IF i = 0 THEN c ELSE LruRemoveAt(c, i)

\* ------------------------------------------------------------------------
\* datastore.rs: PickleDatastore, as a record
\*   [transaction_db, accounts, disputed_transactions_cache]

PickleDatastoreNew ==
    [transaction_db |-> [id \in TxIds |-> None],
     accounts |-> [c \in ClientIds |-> None],
     disputed_transactions_cache |-> << >>,
     set_fails |-> FALSE]

Ok(ds) == [err |-> "Ok", ds |-> ds]
Err(e, ds) == [err |-> e, ds |-> ds]

\* ------------------------------------------------------------------------
\* payment_service.rs, mod tests: MockDatastore, as a record
\*   [accounts, transactions]

MockDatastoreNew ==
    [accounts |-> [c \in ClientIds |-> None], transactions |-> << >>]

\* Box<dyn DatastoreOperations>: which implementation ds is
IsMock(ds) == "transactions" \in DOMAIN ds

\* transactions.iter().position(|t| t.transaction_id == transaction_id), 0 for none
MockFind(ds, transaction_id) ==
    IF \E i \in 1..Len(ds.transactions) :
           ds.transactions[i].transaction_id = transaction_id
    THEN CHOOSE i \in 1..Len(ds.transactions) :
           /\ ds.transactions[i].transaction_id = transaction_id
           /\ \A j \in 1..(i - 1) : ds.transactions[j].transaction_id # transaction_id
    ELSE 0

\* MockDatastore::retrieve_transaction: the first pushed transaction of the id
mock_retrieve_transaction(ds, transaction_id) ==
    LET i == MockFind(ds, transaction_id)
    IN  [err |-> "Ok",
         val |-> IF i = 0 THEN None ELSE Some(ds.transactions[i]),
         ds |-> ds]

\* MockDatastore::save_transaction
mock_save_transaction(ds, transaction) ==
    Ok([ds EXCEPT !.transactions = Append(@, transaction)])

\* MockDatastore::set_transaction_disputed (unwrap of a missing one panics)
mock_set_transaction_disputed(ds, transaction_id, disputed) ==
    LET i == MockFind(ds, transaction_id)
    IN  IF i = 0 THEN Err("Panic", ds)
        ELSE Ok([ds EXCEPT !.transactions[i].disputed = disputed])

\* MockDatastore::remove_transaction_from_cache
mock_remove_transaction_from_cache(ds, transaction_id) == Ok(ds)

\* ------------------------------------------------------------------------
\* datastore.rs: the operations of PickleDatastore; a call on a MockDatastore
\* goes to the implementation above

\* PickleDatastore::retrieve_transaction (takes &mut self: the cache order moves)
ds_retrieve_transaction(ds, transaction_id) ==
    IF IsMock(ds) THEN mock_retrieve_transaction(ds, transaction_id) ELSE
    LET got == LruGet(ds.disputed_transactions_cache, transaction_id)
        ds1 == [ds EXCEPT !.disputed_transactions_cache = got.cache]
    IN  IF got.val # None THEN [err |-> "Ok", val |-> got.val, ds |-> ds1]
        ELSE IF ds.transaction_db[transaction_id] = None
             THEN [err |-> "Ok", val |-> None, ds |-> ds1]
             ELSE [err |-> "Ok",
                   val |-> Some(FromJson(ds.transaction_db[transaction_id][1])),
                   ds |-> ds1]

\* PickleDatastore::save_transaction. ds.set_fails: the backing storage refuses
\* the write, transaction_db.set returns an error that `?` hands on; the value
\* under the key is then taken to be what it was
ds_save_transaction(ds, transaction) ==
    IF IsMock(ds) THEN mock_save_transaction(ds, transaction) ELSE
    IF ds.set_fails THEN Err("PickleDb", ds)
    ELSE Ok([ds EXCEPT !.transaction_db[transaction.transaction_id] =
                            Some(ToJson(transaction))])

\* PickleDatastore::retrieve_account (MockDatastore: the same code)
ds_retrieve_account(ds, client_id) == ds.accounts[client_id]

\* PickleDatastore::save_account (MockDatastore: the same code)
ds_save_account(ds, account) ==
    Ok([ds EXCEPT !.accounts[account.client_id] = Some(account)])

\* PickleDatastore::retrieve_all_accounts (HashMap::values: no order;
\* MockDatastore: the same code)
ds_retrieve_all_accounts(ds) ==
    { ds.accounts[c][1] : c \in { d \in ClientIds : ds.accounts[d] # None } }

\* PickleDatastore::set_transaction_disputed
ds_set_transaction_disputed(ds, transaction_id, disputed) ==
    IF IsMock(ds) THEN mock_set_transaction_disputed(ds, transaction_id, disputed) ELSE
    LET r == ds_retrieve_transaction(ds, transaction_id)
    IN  IF r.err # "Ok" THEN Err(r.err, r.ds)
        ELSE IF r.val = None THEN Err("DisputedValueChange", r.ds)
        ELSE LET transaction == [r.val[1] EXCEPT !.disputed = disputed]
                 ds1 == [r.ds EXCEPT !.disputed_transactions_cache =
                            LruPut(r.ds.disputed_transactions_cache,
                                   transaction_id, transaction)]
             IN  ds_save_transaction(ds1, transaction)

\* PickleDatastore::remove_transaction_from_cache
ds_remove_transaction_from_cache(ds, transaction_id) ==
    IF IsMock(ds) THEN mock_remove_transaction_from_cache(ds, transaction_id) ELSE
    Ok([ds EXCEPT !.disputed_transactions_cache =
            LruPop(ds.disputed_transactions_cache, transaction_id)])

\* ------------------------------------------------------------------------
\* payment_service.rs: PaymentService

\* PaymentService::retrieve_transaction
retrieve_transaction(ds, transaction_id) ==
    LET r == ds_retrieve_transaction(ds, transaction_id)
    IN  IF r.err # "Ok" THEN r
        ELSE IF r.val = None
             THEN [err |-> "DisputedTransactionNotFound", val |-> None, ds |-> r.ds]
             ELSE r

\* PaymentService::retrieve_account
retrieve_account(ds, client_id) ==
    IF ds_retrieve_account(ds, client_id) = None
    THEN AccountNew(client_id)
    ELSE ds_retrieve_account(ds, client_id)[1]

\* PaymentService::save_account_to_datastore
save_account_to_datastore(ds, account) ==
    ds_save_account(ds, round_values(account))

\* Variant of remove_disputed_state: the cache entry is dropped, the disputed
\* flag is left as it is
remove_disputed_state_cache_only(ds, referenced_transaction_id) ==
    ds_remove_transaction_from_cache(ds, referenced_transaction_id)

\* PaymentService::remove_disputed_state
remove_disputed_state(ds, referenced_transaction_id) ==
    LET s == ds_set_transaction_disputed(ds, referenced_transaction_id, FALSE)
    IN  IF s.err # "Ok" THEN s
        ELSE ds_remove_transaction_from_cache(s.ds, referenced_transaction_id)

\* Variant of deposit_apply: the account is rebuilt from Account::new, so locked
\* falls back to its default
deposit_apply_fresh(account, amount) ==
    [AccountNew(account.client_id) EXCEPT !.available = account.available + amount,
                                          !.held = account.held,
                                          !.total = account.total + amount]

\* Variant of deposit_apply: total is not updated
deposit_apply_available_only(account, amount) ==
    [account EXCEPT !.available = @ + amount]

\* Variant of deposit_apply: a locked account takes no deposit
deposit_apply_unless_locked(account, amount) ==
    IF account.locked THEN account
    ELSE [account EXCEPT !.available = @ + amount, !.total = @ + amount]

\* handle_deposit: the balance update
deposit_apply(account, amount) ==
    [account EXCEPT !.available = @ + amount, !.total = @ + amount]

\* PaymentService::handle_deposit
handle_deposit(ds, transaction, account) ==
    IF transaction.amount = None THEN Err("NoAmount", ds)
    ELSE LET account1 == deposit_apply(account, transaction.amount[1])
             s == ds_save_transaction(ds, transaction)
         IN  IF s.err # "Ok" THEN s
             ELSE save_account_to_datastore(s.ds, account1)

\* Variant of withdrawal_refused: the whole of available cannot be withdrawn
withdrawal_refused_ge(amount, account) == amount >= account.available

\* Variant of withdrawal_refused: the check is made against total
withdrawal_refused_total(amount, account) == amount > account.total

\* Variant of withdrawal_refused: the funds are not checked
withdrawal_refused_never(amount, account) == FALSE

\* handle_withdrawal: the funds check
withdrawal_refused(amount, account) == amount > account.available

\* handle_withdrawal: the balance update
withdrawal_apply(account, amount) ==
    [account EXCEPT !.available = @ - amount, !.total = @ - amount]

\* Variant of handle_withdrawal: the transaction is saved before the funds check
handle_withdrawal_save_first(ds, transaction, account) ==
    IF transaction.amount = None THEN Err("NoAmount", ds)
    ELSE LET s == ds_save_transaction(ds, transaction)
         IN  IF s.err # "Ok" THEN s
             ELSE IF transaction.amount[1] > account.available
             THEN Err("InsufficientAccountFunds", s.ds)
             ELSE save_account_to_datastore(
                      s.ds, [account EXCEPT !.available = @ - transaction.amount[1],
                                            !.total = @ - transaction.amount[1]])

\* PaymentService::handle_withdrawal
handle_withdrawal(ds, transaction, account) ==
    IF transaction.amount = None THEN Err("NoAmount", ds)
    ELSE IF withdrawal_refused(transaction.amount[1], account)
    THEN Err("InsufficientAccountFunds", ds)
    ELSE LET account1 == withdrawal_apply(account, transaction.amount[1])
             s == ds_save_transaction(ds, transaction)
         IN  IF s.err # "Ok" THEN s
             ELSE save_account_to_datastore(s.ds, account1)

\* Variant of dispute_apply: a disputed Withdrawal does not come back into total
dispute_apply_no_total(account, type, amount) ==
    IF type = "Deposit"
    THEN [err |-> "Ok",
          account |-> [account EXCEPT !.available = @ - amount, !.held = @ + amount]]
    ELSE IF type = "Withdrawal"
    THEN [err |-> "Ok", account |-> [account EXCEPT !.held = @ + amount]]
    ELSE [err |-> "InvalidDisputedTransactionType", account |-> account]

\* Variant of dispute_apply: a Withdrawal is disputed the way a Deposit is
dispute_apply_symmetric(account, type, amount) ==
    IF type \in {"Deposit", "Withdrawal"}
    THEN [err |-> "Ok",
          account |-> [account EXCEPT !.available = @ - amount, !.held = @ + amount]]
    ELSE [err |-> "InvalidDisputedTransactionType", account |-> account]

\* handle_dispute: match referenced_transaction.type
dispute_apply(account, type, amount) ==
    IF type = "Deposit"
    THEN [err |-> "Ok",
          account |-> [account EXCEPT !.available = @ - amount, !.held = @ + amount]]
    ELSE IF type = "Withdrawal"
    THEN [err |-> "Ok",
          account |-> [account EXCEPT !.held = @ + amount, !.total = @ + amount]]
    ELSE [err |-> "InvalidDisputedTransactionType", account |-> account]

\* Variant of handle_dispute: the disputed flag of the referenced transaction
\* is not looked at
handle_dispute_unchecked(ds, transaction, account) ==
    LET r == retrieve_transaction(ds, transaction.transaction_id)
    IN  IF r.err # "Ok" THEN Err(r.err, r.ds)
        ELSE LET referenced_transaction == r.val[1]
                 referenced_transaction_id == referenced_transaction.transaction_id
             IN  IF referenced_transaction.amount = None
                 THEN Err("NoAmount", r.ds)
                 ELSE LET m == dispute_apply(account, referenced_transaction.type,
                                             referenced_transaction.amount[1])
                      IN  IF m.err # "Ok" THEN Err(m.err, r.ds)
                          ELSE LET s == ds_set_transaction_disputed(
                                            r.ds, referenced_transaction_id, TRUE)
                               IN  IF s.err # "Ok" THEN s
                                   ELSE save_account_to_datastore(s.ds, m.account)

\* Variant of handle_dispute: the funds are held on the account of the client
\* named by the referenced transaction
handle_dispute_on_owner(ds, transaction, account) ==
    LET r == retrieve_transaction(ds, transaction.transaction_id)
    IN  IF r.err # "Ok" THEN Err(r.err, r.ds)
        ELSE LET referenced_transaction == r.val[1]
                 referenced_transaction_id == referenced_transaction.transaction_id
                 owner == retrieve_account(r.ds, referenced_transaction.client_id)
             IN  IF referenced_transaction.disputed
                 THEN Err("TransactionAlreadyDisputed", r.ds)
                 ELSE IF referenced_transaction.amount = None
                 THEN Err("NoAmount", r.ds)
                 ELSE LET m == dispute_apply(owner, referenced_transaction.type,
                                             referenced_transaction.amount[1])
                      IN  IF m.err # "Ok" THEN Err(m.err, r.ds)
                          ELSE LET s == ds_set_transaction_disputed(
                                            r.ds, referenced_transaction_id, TRUE)
                               IN  IF s.err # "Ok" THEN s
                                   ELSE save_account_to_datastore(s.ds, m.account)

\* PaymentService::handle_dispute
handle_dispute(ds, transaction, account) ==
    LET r == retrieve_transaction(ds, transaction.transaction_id)
    IN  IF r.err # "Ok" THEN Err(r.err, r.ds)
        ELSE LET referenced_transaction == r.val[1]
                 referenced_transaction_id == referenced_transaction.transaction_id
             IN  IF referenced_transaction.disputed
                 THEN Err("TransactionAlreadyDisputed", r.ds)
                 ELSE IF referenced_transaction.amount = None
                 THEN Err("NoAmount", r.ds)
                 ELSE LET m == dispute_apply(account, referenced_transaction.type,
                                             referenced_transaction.amount[1])
                      IN  IF m.err # "Ok" THEN Err(m.err, r.ds)
                          ELSE LET s == ds_set_transaction_disputed(
                                            r.ds, referenced_transaction_id, TRUE)
                               IN  IF s.err # "Ok" THEN s
                                   ELSE save_account_to_datastore(s.ds, m.account)

\* Variant of resolve_apply: the held funds are not released
resolve_apply_keep_held(account, type, amount) ==
    IF type \in {"Deposit", "Withdrawal"}
    THEN [err |-> "Ok", account |-> [account EXCEPT !.available = @ + amount]]
    ELSE [err |-> "InvalidDisputedTransactionType", account |-> account]

\* Variant of resolve_apply: resolving a Withdrawal undoes what its dispute did
resolve_apply_undo(account, type, amount) ==
    IF type = "Deposit"
    THEN [err |-> "Ok",
          account |-> [account EXCEPT !.available = @ + amount, !.held = @ - amount]]
    ELSE IF type = "Withdrawal"
    THEN [err |-> "Ok",
          account |-> [account EXCEPT !.held = @ - amount, !.total = @ - amount]]
    ELSE [err |-> "InvalidDisputedTransactionType", account |-> account]

\* handle_resolve: match referenced_transaction.type
resolve_apply(account, type, amount) ==
    IF type \in {"Deposit", "Withdrawal"}
    THEN [err |-> "Ok",
          account |-> [account EXCEPT !.available = @ + amount, !.held = @ - amount]]
    ELSE [err |-> "InvalidDisputedTransactionType", account |-> account]

\* PaymentService::handle_resolve
handle_resolve(ds, transaction, account) ==
    LET r == retrieve_transaction(ds, transaction.transaction_id)
    IN  IF r.err # "Ok" THEN Err(r.err, r.ds)
        ELSE LET referenced_transaction == r.val[1]
                 referenced_transaction_id == referenced_transaction.transaction_id
             IN  IF ~referenced_transaction.disputed
                 THEN Err("TransactionNotDisputed", r.ds)
                 ELSE IF referenced_transaction.amount = None
                 THEN Err("NoAmount", r.ds)
                 ELSE LET m == resolve_apply(account, referenced_transaction.type,
                                             referenced_transaction.amount[1])
                      IN  IF m.err # "Ok" THEN Err(m.err, r.ds)
                          ELSE LET s == remove_disputed_state(
                                            r.ds, referenced_transaction_id)
                               IN  IF s.err # "Ok" THEN s
                                   ELSE save_account_to_datastore(s.ds, m.account)

\* chargeback taken from the available funds instead of the held ones
chargeback_apply_from_available(account, type, amount) ==
    IF type \in {"Deposit", "Withdrawal"}
    THEN [err |-> "Ok",
          account |-> [account EXCEPT !.available = @ - amount, !.total = @ - amount,
                                      !.locked = TRUE]]
    ELSE [err |-> "InvalidDisputedTransactionType", account |-> account]

\* handle_chargeback: match referenced_transaction.type
chargeback_apply(account, type, amount) ==
    IF type \in {"Deposit", "Withdrawal"}
    THEN [err |-> "Ok",
          account |-> [account EXCEPT !.held = @ - amount, !.total = @ - amount,
                                      !.locked = TRUE]]
    ELSE [err |-> "InvalidDisputedTransactionType", account |-> account]

\* PaymentService::handle_chargeback
handle_chargeback(ds, transaction, account) ==
    LET r == retrieve_transaction(ds, transaction.transaction_id)
    IN  IF r.err # "Ok" THEN Err(r.err, r.ds)
        ELSE LET referenced_transaction == r.val[1]
                 referenced_transaction_id == referenced_transaction.transaction_id
             IN  IF ~referenced_transaction.disputed
                 THEN Err("TransactionNotDisputed", r.ds)
                 ELSE IF referenced_transaction.amount = None
                 THEN Err("NoAmount", r.ds)
                 ELSE LET m == chargeback_apply(account, referenced_transaction.type,
                                                referenced_transaction.amount[1])
                      IN  IF m.err # "Ok" THEN Err(m.err, r.ds)
                          ELSE LET s == remove_disputed_state(
                                            r.ds, referenced_transaction_id)
                               IN  IF s.err # "Ok" THEN s
                                   ELSE save_account_to_datastore(s.ds, m.account)

\* PaymentService::process_transaction
process_transaction(ds, transaction, account) ==
    CASE transaction.type = "Deposit" -> handle_deposit(ds, transaction, account)
      [] transaction.type = "Withdrawal" -> handle_withdrawal(ds, transaction, account)
      [] transaction.type = "Dispute" -> handle_dispute(ds, transaction, account)
      [] transaction.type = "Resolve" -> handle_resolve(ds, transaction, account)
      [] transaction.type = "Chargeback" -> handle_chargeback(ds, transaction, account)

\* ------------------------------------------------------------------------
\* State

VARIABLES
    transaction_db,               \* PickleDatastore.transaction_db: id -> Option<json>
    accounts,                     \* PickleDatastore.accounts: client -> Option<Account>
    disputed_transactions_cache,  \* PickleDatastore.disputed_transactions_cache
    pc,                           \* "run" inside the loop of run, "done" after write_accounts
    n,                            \* rows read so far
    row,                          \* the row read last
    result,                       \* what process_transaction returned for it
    output,                       \* the accounts handed to the writer
    open,                         \* history: id -> its last accepted dispute-family row was a Dispute
    charged,                      \* history: id -> the record stored under it was charged back
    mock,                         \* a MockDatastore given the same rows (MockSpec only)
    mock_result,                  \* what process_transaction returned on it for row
    chain                         \* history: the run of rows on one id that ends at row

vars == << transaction_db, accounts, disputed_transactions_cache, pc, n, row, result,
           output, open, charged, mock, mock_result, chain >>

\* The datastore the service holds
DS ==
    [transaction_db |-> transaction_db, accounts |-> accounts,
     disputed_transactions_cache |-> disputed_transactions_cache,
     set_fails |-> FALSE]

\* The same datastore while its backing storage refuses writes
FailingDS == [DS EXCEPT !.set_fails = TRUE]

\* What a lookup of id in ds answers, without the change of the cache order
Lookup(ds, id) == ds_retrieve_transaction(ds, id).val

\* The amount column of the input: empty, or a decimal text
AmountTexts == {None, Some(Unit \div 2 - 1)} \cup { Some(k * Unit) : k \in 1..MaxAmount }

NoRow == [type |-> "None", client_id |-> 0, transaction_id |-> 0, amount |-> None,
          disputed |-> FALSE]

\* chain: the rows handled last, as long as they are a Deposit or Withdrawal
\* followed by dispute-family rows of the same client on the same id:
\*   types, res  the types of these rows and what each returned
\*   amount      the amount of the first row
\*   snap        the client's account right after a first Deposit, right before
\*               a first Withdrawal
\*   known       a record was stored under the id before the first row
\*   own         after the first row a lookup of the id answers with the record
\*               of that row
EmptyChain == [types |-> << >>, res |-> << >>, amount |-> None, snap |-> None,
               known |-> FALSE, own |-> FALSE]

\* history: the chain after transaction was handled with outcome out
ChainNext(transaction, account, out) ==
    IF transaction.type \in {"Deposit", "Withdrawal"}
    THEN [types |-> << transaction.type >>, res |-> << out.err >>,
          amount |-> transaction.amount,
          snap |-> IF transaction.type = "Deposit"
                   THEN Some(retrieve_account(out.ds, transaction.client_id))
                   ELSE Some(account),
          known |-> Lookup(DS, transaction.transaction_id) # None,
          own |-> /\ out.err = "Ok"
                  /\ Lookup(out.ds, transaction.transaction_id)
                        = Some(FromJson(ToJson(transaction)))]
    ELSE IF /\ transaction.transaction_id = row.transaction_id
            /\ transaction.client_id = row.client_id
            /\ \/ Len(chain.types) = 1 /\ transaction.type = "Dispute"
               \/ Len(chain.types) \in {2, 3}
                    /\ transaction.type \in {"Resolve", "Chargeback"}
    THEN [chain EXCEPT !.types = Append(@, transaction.type),
                       !.res = Append(@, out.err)]
    ELSE EmptyChain

\* history: which ids have an open dispute after transaction was handled
OpenNext(transaction, out) ==
    IF out.err # "Ok" THEN open
    ELSE IF transaction.type = "Dispute"
    THEN [open EXCEPT ![transaction.transaction_id] = TRUE]
    ELSE IF transaction.type \in {"Resolve", "Chargeback"}
    THEN [open EXCEPT ![transaction.transaction_id] = FALSE]
    ELSE open

\* history: which ids hold a charged-back record after transaction was handled
\* (an accepted Chargeback sets it, a Deposit or Withdrawal that stores a new
\* record under the id clears it)
ChargedNext(transaction, out) ==
    IF out.err # "Ok" THEN charged
    ELSE IF transaction.type = "Chargeback"
    THEN [charged EXCEPT ![transaction.transaction_id] = TRUE]
    ELSE IF transaction.type \in {"Deposit", "Withdrawal"}
    THEN [charged EXCEPT ![transaction.transaction_id] = FALSE]
    ELSE charged

Init ==
    /\ transaction_db = PickleDatastoreNew.transaction_db
    /\ accounts = PickleDatastoreNew.accounts
    /\ disputed_transactions_cache = PickleDatastoreNew.disputed_transactions_cache
    /\ pc = "run"
    /\ n = 0
    /\ row = NoRow
    /\ result = "None"
    /\ output = {}
    /\ open = [id \in TxIds |-> FALSE]
    /\ charged = [id \in TxIds |-> FALSE]
    /\ mock = MockDatastoreNew
    /\ mock_result = "None"
    /\ chain = EmptyChain

\* Variant of RunRow: an error of the handler is propagated out of run
RunRow_propagate_error(transaction) ==
    /\ pc = "run"
    /\ n < MaxRows
    /\ \E account \in {retrieve_account(DS, transaction.client_id)} :
       \E out \in {process_transaction(DS, transaction, account)} :
           /\ transaction_db' = out.ds.transaction_db
           /\ accounts' = out.ds.accounts
           /\ disputed_transactions_cache' = out.ds.disputed_transactions_cache
           /\ row' = transaction
           /\ result' = out.err
           /\ open' = OpenNext(transaction, out)
           /\ charged' = ChargedNext(transaction, out)
           /\ chain' = ChainNext(transaction, account, out)
           /\ pc' = IF out.err = "Ok" THEN "run" ELSE "fatal"
    /\ n' = n + 1
    /\ UNCHANGED << output, mock, mock_result >>

\* One iteration of the loop of PaymentService::run on a well-formed row
RunRow(transaction) ==
    /\ pc = "run"
    /\ n < MaxRows
    /\ \E account \in {retrieve_account(DS, transaction.client_id)} :
       \E out \in {process_transaction(DS, transaction, account)} :
           /\ transaction_db' = out.ds.transaction_db
           /\ accounts' = out.ds.accounts
           /\ disputed_transactions_cache' = out.ds.disputed_transactions_cache
           /\ row' = transaction
           /\ result' = out.err
           /\ open' = OpenNext(transaction, out)
           /\ charged' = ChargedNext(transaction, out)
           /\ chain' = ChainNext(transaction, account, out)
    /\ n' = n + 1
    /\ UNCHANGED << pc, output, mock, mock_result >>

Deposit ==
    \E c \in ClientIds, t \in TxIds, a \in AmountTexts :
        RunRow(Transaction("Deposit", c, t, a))

Withdrawal ==
    \E c \in ClientIds, t \in TxIds, a \in AmountTexts :
        RunRow(Transaction("Withdrawal", c, t, a))

Dispute ==
    \E c \in ClientIds, t \in TxIds : RunRow(Transaction("Dispute", c, t, None))

Resolve ==
    \E c \in ClientIds, t \in TxIds : RunRow(Transaction("Resolve", c, t, None))

Chargeback ==
    \E c \in ClientIds, t \in TxIds : RunRow(Transaction("Chargeback", c, t, None))

\* A row that does not deserialize: logged, skipped
InvalidRow ==
    /\ pc = "run"
    /\ n < MaxRows
    /\ n' = n + 1
    /\ row' = NoRow
    /\ result' = "Invalid"
    /\ chain' = EmptyChain
    /\ UNCHANGED << transaction_db, accounts, disputed_transactions_cache, pc, output,
                    open, charged, mock, mock_result >>

\* End of the input: write_accounts
WriteAccounts ==
    /\ pc = "run"
    /\ pc' = "done"
    /\ output' = ds_retrieve_all_accounts(DS)
    /\ UNCHANGED << transaction_db, accounts, disputed_transactions_cache, n, row,
                    result, open, charged, mock, mock_result, chain >>

Next ==
    \/ Deposit
    \/ Withdrawal
    \/ Dispute
    \/ Resolve
    \/ Chargeback
    \/ InvalidRow
    \/ WriteAccounts

Spec == Init /\ [][Next]_vars

\* One iteration of the loop of run on a well-formed row, while the backing
\* storage refuses writes
StoreFailureRow(transaction) ==
    /\ pc = "run"
    /\ n < MaxRows
    /\ \E account \in {retrieve_account(DS, transaction.client_id)} :
       \E out \in {process_transaction(FailingDS, transaction, account)} :
           /\ transaction_db' = out.ds.transaction_db
           /\ accounts' = out.ds.accounts
           /\ disputed_transactions_cache' = out.ds.disputed_transactions_cache
           /\ row' = transaction
           /\ result' = out.err
           /\ open' = OpenNext(transaction, out)
           /\ charged' = ChargedNext(transaction, out)
           /\ chain' = ChainNext(transaction, account, out)
    /\ n' = n + 1
    /\ UNCHANGED << pc, output, mock, mock_result >>

StoreFailure ==
    \E type \in {"Deposit", "Withdrawal", "Dispute", "Resolve", "Chargeback"},
       c \in ClientIds, t \in TxIds, a \in AmountTexts :
        /\ type \in {"Dispute", "Resolve", "Chargeback"} => a = None
        /\ StoreFailureRow(Transaction(type, c, t, a))

FailNext == Next \/ StoreFailure

\* The runs in which writes to the backing storage may fail
FailSpec == Init /\ [][FailNext]_vars

\* One iteration of the loop of run on a well-formed row, by a service on the
\* PickleDatastore and by a service on a MockDatastore that was given the same
\* rows before
MockRunRow(transaction) ==
    /\ pc = "run"
    /\ n < MaxRows
    /\ \E account \in {retrieve_account(DS, transaction.client_id)} :
       \E out \in {process_transaction(DS, transaction, account)} :
           /\ transaction_db' = out.ds.transaction_db
           /\ accounts' = out.ds.accounts
           /\ disputed_transactions_cache' = out.ds.disputed_transactions_cache
           /\ row' = transaction
           /\ result' = out.err
           /\ open' = OpenNext(transaction, out)
           /\ charged' = ChargedNext(transaction, out)
           /\ chain' = ChainNext(transaction, account, out)
    /\ \E account \in {retrieve_account(mock, transaction.client_id)} :
       \E out \in {process_transaction(mock, transaction, account)} :
           /\ mock' = out.ds
           /\ mock_result' = out.err
    /\ n' = n + 1
    /\ UNCHANGED << pc, output >>

MockRow ==
    \E type \in {"Deposit", "Withdrawal", "Dispute", "Resolve", "Chargeback"},
       c \in ClientIds, t \in TxIds, a \in AmountTexts :
        /\ type \in {"Dispute", "Resolve", "Chargeback"} => a = None
        /\ MockRunRow(Transaction(type, c, t, a))

MockNext == MockRow \/ InvalidRow \/ WriteAccounts

\* The runs of the service on both datastores side by side
MockSpec == Init /\ [][MockNext]_vars

\* run reads a finite file: the loop body always returns, and the end of the
\* input, possible after any row, comes
FairSpec == Spec /\ WF_vars(WriteAccounts)

\* ------------------------------------------------------------------------
\* Vocabulary of the properties

\* The account the run loop reads for client c (a zeroed one if none is stored)
AccountOf(c) == retrieve_account(DS, c)

\* The records held by the cache, whatever their order of use
CacheEntries ==
    { disputed_transactions_cache[i] : i \in DOMAIN disputed_transactions_cache }

\* This step handled a well-formed row, now in row'
Handled == n' = n + 1 /\ row'.type # "None"

\* This step changed no stored account and no stored transaction record
StoreUnchanged ==
    /\ accounts' = accounts
    /\ transaction_db' = transaction_db
    /\ CacheEntries' = CacheEntries

BusinessErrors ==
    {"NoAmount", "InsufficientAccountFunds", "DisputedTransactionNotFound",
     "TransactionAlreadyDisputed", "TransactionNotDisputed",
     "InvalidDisputedTransactionType"}

\* ------------------------------------------------------------------------
\* C1: every stored account has total = available + held, in every state of
\* every run from the empty store, whatever rows were accepted or rejected.
C1_TotalIsAvailablePlusHeld ==
    \A c \in ClientIds :
        accounts[c] # None =>
            accounts[c][1].total = accounts[c][1].available + accounts[c][1].held

\* C1 witness: a Dispute of a Withdrawal was just accepted (held and total moved,
\* available did not) on an account with funds available and held.
C1_Witness ==
    /\ row.type = "Dispute" /\ result = "Ok"
    /\ Lookup(DS, row.transaction_id)[1].type = "Withdrawal"
    /\ AccountOf(row.client_id).held > 0
    /\ AccountOf(row.client_id).available > 0

\* C2: a stored account that is locked is locked after every further step.
C2_LockedStaysLocked ==
    [][\A c \in ClientIds :
          (accounts[c] # None /\ accounts[c][1].locked)
              => (accounts'[c] # None /\ accounts'[c][1].locked)]_vars

\* C2 witness: a Deposit was accepted for a locked account, which is still locked.
C2_Witness ==
    /\ row.type = "Deposit" /\ result = "Ok"
    /\ chain.snap[1].locked
    /\ AccountOf(row.client_id).locked

\* C3: a row rejected with a business-rule error changes no stored account and
\* no stored transaction record, durable or cached.
C3_RejectedRowChangesNothing ==
    [][(Handled /\ result' \in BusinessErrors) => StoreUnchanged]_vars

\* C3 witness: a Dispute was rejected as already disputed, the funds of the
\* open dispute being held.
C3_Witness ==
    /\ row.type = "Dispute" /\ result = "TransactionAlreadyDisputed"
    /\ Lookup(DS, row.transaction_id)[1].disputed
    /\ \E c \in ClientIds : AccountOf(c).held > 0

\* C4: a Resolve or Chargeback row on a stored id that has no open dispute (its
\* last accepted dispute-family row, if any, was a Resolve or a Chargeback) is
\* rejected as not disputed and changes no account and no transaction record.
C4_NotDisputedIsRejected ==
    [][(/\ Handled
        /\ row'.type \in {"Resolve", "Chargeback"}
        /\ Lookup(DS, row'.transaction_id) # None
        /\ ~open[row'.transaction_id])
       => (result' = "TransactionNotDisputed" /\ StoreUnchanged)]_vars

\* C4 witness: a Resolve was accepted and the same Resolve, issued again right
\* after it, was rejected as not disputed.
C4_Witness ==
    /\ Len(chain.types) = 4
    /\ chain.types[3] = "Resolve" /\ chain.res[3] = "Ok"
    /\ chain.types[4] = "Resolve" /\ chain.res[4] = "TransactionNotDisputed"

C6_WithdrawalIffAmountAtMostAvailable ==
    [][(/\ Handled
        /\ row'.type = "Withdrawal"
        /\ row'.amount # None)
       => LET account == AccountOf(row'.client_id)
              amount == row'.amount[1]
          IN  IF amount <= account.available
              THEN /\ result' = "Ok"
                   /\ accounts'[row'.client_id] =
                        Some([account EXCEPT !.available = @ - amount,
                                             !.total = @ - amount])
                   /\ (amount = account.available
                         => accounts'[row'.client_id][1].available = 0)
              ELSE /\ result' = "InsufficientAccountFunds"
                   /\ accounts' = accounts]_vars

\* C6 witness: a Withdrawal of one unit more than the available funds of a
\* stored account was rejected.
C6_Witness ==
    /\ row.type = "Withdrawal" /\ result = "InsufficientAccountFunds"
    /\ accounts[row.client_id] # None
    /\ row.amount[1] = AccountOf(row.client_id).available + Unit

\* C7: a Withdrawal of more than available is rejected even when total covers
\* it, and changes nothing in the store; a Dispute of the same client on its id
\* right after it is rejected as an unknown transaction when no record was
\* stored under that id before.
C7_WithdrawalChecksAvailableOnly ==
    /\ [][(/\ Handled
           /\ row'.type = "Withdrawal"
           /\ row'.amount # None
           /\ row'.amount[1] > AccountOf(row'.client_id).available)
          => /\ result' = "InsufficientAccountFunds"
             /\ accounts' = accounts
             /\ transaction_db' = transaction_db
             /\ disputed_transactions_cache' = disputed_transactions_cache]_vars
    /\ [](( /\ Len(chain.types) = 2
            /\ chain.types[1] = "Withdrawal"
            /\ chain.res[1] = "InsufficientAccountFunds"
            /\ ~chain.known)
          => chain.res[2] = "DisputedTransactionNotFound")

\* C7 witness: a Withdrawal that total covered and available did not was
\* rejected, and the Dispute on its id was rejected as unknown.
C7_Witness ==
    /\ chain.types = << "Withdrawal", "Dispute" >>
    /\ chain.res = << "InsufficientAccountFunds", "DisputedTransactionNotFound" >>
    /\ chain.amount[1] > AccountOf(row.client_id).available
    /\ chain.amount[1] <= AccountOf(row.client_id).total
    /\ AccountOf(row.client_id).held > 0

\* C8: a Deposit row with an amount is accepted: available and total go up by
\* the amount, nothing else of the account changes, and the durable record of
\* its id is this deposit, not disputed. A Deposit row without an amount is
\* rejected for the missing amount and stores nothing.
C8_DepositWithAmountSucceeds ==
    [][(Handled /\ row'.type = "Deposit")
       => LET account == AccountOf(row'.client_id)
              id == row'.transaction_id
          IN  IF row'.amount # None
              THEN /\ result' = "Ok"
                   /\ accounts'[row'.client_id] =
                        Some([account EXCEPT !.available = @ + row'.amount[1],
                                             !.total = @ + row'.amount[1]])
                   /\ transaction_db'[id] =
                        Some(<< "Deposit", row'.client_id, id, row'.amount, FALSE >>)
              ELSE /\ result' = "NoAmount"
                   /\ StoreUnchanged]_vars

\* C8 witness: a Deposit of a positive amount was accepted on an account that
\* holds disputed funds.
C8_Witness ==
    /\ row.type = "Deposit" /\ result = "Ok"
    /\ row.amount[1] > 0
    /\ AccountOf(row.client_id).held > 0

\* C9: an accepted Dispute refers to a transaction that was not disputed and
\* now is; for a Deposit of amount A available goes down by A and held up by A,
\* for a Withdrawal held and total go up by A; nothing else of the account
\* changes.
C9_DisputeEffect ==
    [][\A id \in TxIds :
         (Handled /\ row'.type = "Dispute" /\ row'.transaction_id = id
                  /\ result' = "Ok")
         => LET account == AccountOf(row'.client_id)
                referenced == Lookup(DS, id)[1]
                A == referenced.amount[1]
            IN  /\ ~referenced.disputed
                /\ Lookup(DS, id)' = Some([referenced EXCEPT !.disputed = TRUE])
                /\ FromJson(transaction_db'[id][1]).disputed
                /\ referenced.type \in {"Deposit", "Withdrawal"}
                /\ referenced.type = "Deposit"
                     => accounts'[row'.client_id] =
                          Some([account EXCEPT !.available = @ - A, !.held = @ + A])
                /\ referenced.type = "Withdrawal"
                     => accounts'[row'.client_id] =
                          Some([account EXCEPT !.held = @ + A, !.total = @ + A])]_vars

\* C9 witness: a Dispute of a Withdrawal of a positive amount was accepted.
C9_Witness ==
    /\ row.type = "Dispute" /\ result = "Ok"
    /\ Lookup(DS, row.transaction_id)[1].type = "Withdrawal"
    /\ Lookup(DS, row.transaction_id)[1].amount[1] > 0
    /\ Lookup(DS, row.transaction_id)[1].disputed

\* C10: an accepted Resolve refers to a disputed transaction of amount A, of
\* either type: available goes up by A, held down by A, nothing else of the
\* account changes, and the transaction is no longer disputed. After an accepted
\* Withdrawal, Dispute and Resolve of one transaction, available and total are
\* what they were before the Withdrawal.
C10_ResolveEffect ==
    /\ [][\A id \in TxIds :
            (Handled /\ row'.type = "Resolve" /\ row'.transaction_id = id
                     /\ result' = "Ok")
            => LET account == AccountOf(row'.client_id)
                   referenced == Lookup(DS, id)[1]
                   A == referenced.amount[1]
               IN  /\ referenced.disputed
                   /\ referenced.type \in {"Deposit", "Withdrawal"}
                   /\ accounts'[row'.client_id] =
                        Some([account EXCEPT !.available = @ + A, !.held = @ - A])
                   /\ Lookup(DS, id)' = Some([referenced EXCEPT !.disputed = FALSE])
                   /\ ~FromJson(transaction_db'[id][1]).disputed]_vars
    /\ []((/\ chain.types = << "Withdrawal", "Dispute", "Resolve" >>
           /\ chain.res = << "Ok", "Ok", "Ok" >>)
          => /\ AccountOf(row.client_id).available = chain.snap[1].available
             /\ AccountOf(row.client_id).total = chain.snap[1].total)

\* C10 witness: a Withdrawal of a positive amount, its Dispute and its Resolve
\* were accepted one after the other.
C10_Witness ==
    /\ chain.types = << "Withdrawal", "Dispute", "Resolve" >>
    /\ chain.res = << "Ok", "Ok", "Ok" >>
    /\ chain.amount[1] > 0

\* C11: an accepted Chargeback refers to a disputed transaction of amount A, of
\* either type: held and total go down by A, available does not change, the
\* account is locked, and the transaction is no longer disputed.
C11_ChargebackEffect ==
    [][\A id \in TxIds :
         (Handled /\ row'.type = "Chargeback" /\ row'.transaction_id = id
                  /\ result' = "Ok")
         => LET account == AccountOf(row'.client_id)
                referenced == Lookup(DS, id)[1]
                A == referenced.amount[1]
            IN  /\ referenced.disputed
                /\ referenced.type \in {"Deposit", "Withdrawal"}
                /\ accounts'[row'.client_id] =
                     Some([account EXCEPT !.held = @ - A, !.total = @ - A,
                                          !.locked = TRUE])
                /\ accounts'[row'.client_id][1].available = account.available
                /\ Lookup(DS, id)' = Some([referenced EXCEPT !.disputed = FALSE])
                /\ ~FromJson(transaction_db'[id][1]).disputed]_vars

\* C11 witness: a Withdrawal of a positive amount, its Dispute and its
\* Chargeback were accepted one after the other; the account is locked.
C11_Witness ==
    /\ chain.types = << "Withdrawal", "Dispute", "Chargeback" >>
    /\ chain.res = << "Ok", "Ok", "Ok" >>
    /\ chain.amount[1] > 0
    /\ AccountOf(row.client_id).locked
    /\ ~chain.snap[1].locked

\* C12: a Dispute row on an id whose dispute is open (the last accepted
\* dispute-family row on the id was a Dispute) finds the transaction disputed,
\* is rejected as already disputed and changes no account, no durable record,
\* no cache entry and not what a lookup of the id answers; so an open dispute
\* raises held once.
C12_DisputeOfDisputedIsRejected ==
    /\ [][\A id \in TxIds :
            (Handled /\ row'.type = "Dispute" /\ row'.transaction_id = id
                     /\ (open[id] \/ (Lookup(DS, id) # None
                                        /\ Lookup(DS, id)[1].disputed)))
            => /\ result' = "TransactionAlreadyDisputed"
               /\ StoreUnchanged
               /\ Lookup(DS, id)' = Lookup(DS, id)
               /\ Lookup(DS, id)[1].disputed]_vars
    /\ [](\A id \in TxIds :
            open[id] => (Lookup(DS, id) # None /\ Lookup(DS, id)[1].disputed))

\* C12 witness: a Dispute was accepted and the same Dispute, issued again right
\* after it by the same client, was rejected as already disputed; the held
\* funds are the amount of the transaction, once.
C12_Witness ==
    /\ row.type = "Dispute" /\ result = "TransactionAlreadyDisputed"
    /\ open[row.transaction_id]
    /\ Lookup(DS, row.transaction_id)[1].amount[1] > 0
    /\ AccountOf(row.client_id).held = Lookup(DS, row.transaction_id)[1].amount[1]

\* C13: once a Chargeback of the record stored under an id was accepted, no
\* later Dispute, Resolve or Chargeback row on that id is accepted or changes a
\* stored account.
C13_ChargedBackIsTerminal ==
    [][\A id \in TxIds :
         (/\ Handled
          /\ row'.type \in {"Dispute", "Resolve", "Chargeback"}
          /\ row'.transaction_id = id
          /\ charged[id])
         => (result' # "Ok" /\ accounts' = accounts)]_vars

\* C14: once the loop has handled a row naming a client, an account is stored
\* for that client, whether the row was accepted or rejected, and the accounts
\* handed to the writer at the end of the input include it.
C14_AccountCreatedOnFirstReference ==
    row.type # "None"
    => /\ accounts[row.client_id] # None
       /\ (pc = "done" => \E account \in output : account.client_id = row.client_id)

\* C15: a durable record, once stored under an id, stays stored and keeps its
\* type, client_id and amount through every later step, a Deposit or
\* Withdrawal row that uses the id again included.
C15_StoredRecordIsImmutable ==
    [][\A id \in TxIds :
         transaction_db[id] # None
         => /\ transaction_db'[id] # None
            /\ FromJson(transaction_db'[id][1]).type = FromJson(transaction_db[id][1]).type
            /\ FromJson(transaction_db'[id][1]).client_id
                  = FromJson(transaction_db[id][1]).client_id
            /\ FromJson(transaction_db'[id][1]).amount
                  = FromJson(transaction_db[id][1]).amount]_vars

\* C16: every step of the loop reads exactly the next row of the input, never
\* one again and never one ahead; a well-formed row gets the outcome of its
\* handler, accepted or rejected, and whatever the outcome the loop stays in
\* the loop for the next row; the run reaches the end of the input, and there it
\* hands the stored accounts to the writer.
C16_EveryRowOnceInOrderToTheEnd ==
    /\ [][(pc = "run" /\ pc' = "run") => n' = n + 1]_vars
    /\ [][n' # n => (n' = n + 1 /\ pc = "run" /\ pc' = "run")]_vars
    /\ [][Handled => result' \in {"Ok"} \cup BusinessErrors]_vars
    /\ [](pc \in {"run", "done"})
    /\ [](pc = "done" => output = ds_retrieve_all_accounts(DS))
    /\ <>(pc = "done")

\* C16 witness: a row was rejected, the row after it was accepted, and the run
\* reached the end of the input with accounts to report.
C16_Witness ==
    /\ pc = "done"
    /\ Len(chain.types) = 2
    /\ chain.res[1] # "Ok" /\ chain.res[2] = "Ok"
    /\ n >= 3
    /\ output # {}

\* C17: in every state and for every id, a lookup through the cache answers
\* with the durable record of the id (nothing if none is stored).
C17_CacheIsTransparent ==
    \A id \in TxIds :
        Lookup(DS, id) = IF transaction_db[id] = None THEN None
                         ELSE Some(FromJson(transaction_db[id][1]))

\* C18: after every row, each entry of the cache has a durable record that is
\* disputed, and right after an accepted Resolve or Chargeback the cache has
\* no entry for the id of that row.
C18_CacheHoldsOpenDisputesOnly ==
    /\ \A entry \in CacheEntries :
          /\ transaction_db[entry.key] # None
          /\ FromJson(transaction_db[entry.key][1]).disputed
    /\ (row.type \in {"Resolve", "Chargeback"} /\ result = "Ok")
         => \A entry \in CacheEntries : entry.key # row.transaction_id

\* C19: a row during which a write to the backing storage fails changes no
\* stored account, no durable record and no cache entry.
C19_FailedRowIsNotPartiallyApplied ==
    [][(Handled /\ result' = "PickleDb") => StoreUnchanged]_vars

\* C20: a row handled for a locked account has the outcome, and leaves the
\* balances and the transaction records, that the same row has on the same
\* store for the same account unlocked; only a Chargeback changes the flag.
C20_LockedIsNotRead ==
    [][\A c \in ClientIds :
         (Handled /\ row'.client_id = c /\ AccountOf(c).locked)
         => LET unlocked == process_transaction(
                                DS, row', [AccountOf(c) EXCEPT !.locked = FALSE])
                after == retrieve_account(unlocked.ds, c)
            IN  /\ result' = unlocked.err
                /\ AccountOf(c)'.available = after.available
                /\ AccountOf(c)'.held = after.held
                /\ AccountOf(c)'.total = after.total
                /\ AccountOf(c)'.locked
                /\ transaction_db' = unlocked.ds.transaction_db
                /\ disputed_transactions_cache' = unlocked.ds.disputed_transactions_cache
                /\ (result' = "Ok" /\ row'.type # "Chargeback") => ~after.locked]_vars

\* C20 witness: a Dispute was accepted for a locked account and moved funds of
\* that account to held.
C20_Witness ==
    /\ row.type = "Dispute" /\ result = "Ok"
    /\ AccountOf(row.client_id).locked
    /\ AccountOf(row.client_id).held > 0
    /\ charged[row.transaction_id]

\* C21: given the same rows, the service has returned the same for the last
\* row on the MockDatastore as on the PickleDatastore, and the accounts the two
\* stores would report are the same.
C21_MockAgreesWithPickle ==
    /\ row.type # "None" => mock_result = result
    /\ ds_retrieve_all_accounts(mock) = ds_retrieve_all_accounts(DS)

\* C22: no row carries an amount of zero (an amount text that rounds to zero
\* deserializes to no amount), so a Deposit or Withdrawal row of such a text is
\* rejected for the missing amount, and no durable record has an amount of zero.
C22_ZeroAfterRoundingIsAbsent ==
    /\ row.amount # Some(0)
    /\ (row.type \in {"Deposit", "Withdrawal"} /\ row.amount \in {None, Some(0)})
         => result = "NoAmount"
    /\ \A id \in TxIds :
          transaction_db[id] # None => transaction_db[id][1][4] # Some(0)

\* C23: a Dispute, Resolve or Chargeback row of a client on a transaction whose
\* record names another client changes no stored account and not the record a
\* lookup of the id answers (its disputed flag included).
C23_ForeignDisputeChangesNothing ==
    [][\A id \in TxIds :
         (/\ Handled
          /\ row'.type \in {"Dispute", "Resolve", "Chargeback"}
          /\ row'.transaction_id = id
          /\ Lookup(DS, id) # None
          /\ Lookup(DS, id)[1].client_id # row'.client_id)
         => (accounts' = accounts /\ Lookup(DS, id)' = Lookup(DS, id))]_vars

\* C24 as stated: no stored account has a negative available or a negative
\* held balance.
C24_NoNegativeBalance ==
    \A c \in ClientIds :
        accounts[c] # None
        => (accounts[c][1].available >= 0 /\ accounts[c][1].held >= 0)

\* C24 amended: an accepted Withdrawal never leaves available negative. (A
\* Dispute has no such check: it lowers available by the amount of the disputed
\* Deposit whatever is available.)
C24_WithdrawalKeepsAvailableNonNegative ==
    [][\A c \in ClientIds :
         (Handled /\ row'.type = "Withdrawal" /\ row'.client_id = c
                  /\ result' = "Ok")
         => (accounts'[c] # None /\ accounts'[c][1].available >= 0)]_vars

\* C24 witness: a client deposited, withdrew the funds under another id, and
\* its Dispute of the Deposit was accepted: available is negative by the amount.
C24_Witness ==
    /\ row.type = "Dispute" /\ result = "Ok"
    /\ Lookup(DS, row.transaction_id)[1].type = "Deposit"
    /\ Lookup(DS, row.transaction_id)[1].client_id = row.client_id
    /\ \E id \in TxIds \ {row.transaction_id} :
          /\ Lookup(DS, id) # None
          /\ Lookup(DS, id)[1].type = "Withdrawal"
          /\ Lookup(DS, id)[1].client_id = row.client_id
          /\ Lookup(DS, id)[1].amount = Lookup(DS, row.transaction_id)[1].amount
    /\ AccountOf(row.client_id).available < 0
    /\ AccountOf(row.client_id).held = -AccountOf(row.client_id).available
    /\ AccountOf(row.client_id).total = 0

\* C25: every transaction a lookup answers is a Deposit or a Withdrawal that
\* carries an amount, so no Dispute, Resolve or Chargeback row is rejected for a
\* wrong referenced type or for a missing amount.
C25_StoreHoldsDepositsAndWithdrawalsWithAmount ==
    /\ \A id \in TxIds :
          Lookup(DS, id) # None
          => /\ Lookup(DS, id)[1].type \in {"Deposit", "Withdrawal"}
             /\ Lookup(DS, id)[1].amount # None
    /\ row.type \in {"Dispute", "Resolve", "Chargeback"}
         => result \notin {"NoAmount", "InvalidDisputedTransactionType"}

\* C26: a row naming client c leaves the stored account of every other client
\* as it was, whether the row is accepted or rejected.
C26_OnlyTheRowsClientChanges ==
    [][\A c \in ClientIds :
         (Handled /\ row'.client_id # c) => accounts'[c] = accounts[c]]_vars

\* C26 witness: a Dispute of one client on a Deposit of another client was
\* accepted; the other client has a stored account, with its funds available
\* and nothing held.
C26_Witness ==
    /\ row.type = "Dispute" /\ result = "Ok"
    /\ Lookup(DS, row.transaction_id)[1].type = "Deposit"
    /\ \E c \in ClientIds \ {row.client_id} :
          /\ Lookup(DS, row.transaction_id)[1].client_id = c
          /\ accounts[c] # None
          /\ accounts[c][1].available = Lookup(DS, row.transaction_id)[1].amount[1]
          /\ accounts[c][1].available > 0
          /\ accounts[c][1].held = 0
    /\ AccountOf(row.client_id).held > 0

====
